---- MODULE Spec2Model ----
(***************************************************************************)
(* Model of the Postgres MCP service.                                      *)
(*   src/mcp_server.py  asyncpg tools sharing one lazily created pool      *)
(*   src/app.py         HTTP entry point: bearer check, start_server       *)
(*   src/main.py        stdio variant: psycopg2, one connection per call   *)
(* A tool call is cut at its real suspension points (await create_pool,    *)
(* the wait for a free connection, the database round trip, the reset on   *)
(* release); the code between two suspension points is one atomic step.    *)
(***************************************************************************)
EXTENDS Integers, Sequences, FiniteSets, TLC

VARIABLES
    workload,   \* [clients, queries]: who calls, and the statements they draw from
    secret,     \* os.getenv("MCP_API_KEY")
    denyStatus, \* status HTTPBearer answers when no bearer credentials are sent
    srv,        \* position of the process: start_server, a host of the tools, main.py
    db_pool,    \* mcp_server.db_pool: 0 is None, else an index into pools
    pools,      \* every pool create_pool has returned: pools[p] = idle connections
    req,        \* per client: the tool call in progress
    committed,  \* changes committed in the database
    acked,      \* changes whose run_sql call has returned its success message
    nChanges,   \* changes issued so far
    mainOut     \* main.py: the last tool call and its outcome

vars == <<workload, secret, denyStatus, srv, db_pool, pools, req,
          committed, acked, nChanges, mainOut>>

----------------------------------------------------------------------------
(* Bounds *)
NumClients == 2
MaxSize == 1
MaxWait == 2
MaxWrites == 2
MaxWords == 2

----------------------------------------------------------------------------
(* Strings are sequences of one-character strings. *)
UpperAlpha == <<"A","B","C","D","E","F","G","H","I","J","K","L","M",
                "N","O","P","Q","R","S","T","U","V","W","X","Y","Z">>
LowerAlpha == <<"a","b","c","d","e","f","g","h","i","j","k","l","m",
                "n","o","p","q","r","s","t","u","v","w","x","y","z">>
Whitespace == {" ", "\t", "\n", "\r", "\f"}

LowerChar(c) ==
    IF \E i \in 1..26 : UpperAlpha[i] = c
    THEN LowerAlpha[CHOOSE i \in 1..26 : UpperAlpha[i] = c]
    ELSE c

\* str.lower()
Lower(s) == [i \in 1..Len(s) |-> LowerChar(s[i])]

\* str.strip(): leading and trailing whitespace removed
Strip(s) ==
    LET keep == {i \in 1..Len(s) : s[i] \notin Whitespace}
    IN  IF keep = {} THEN <<>>
        ELSE LET lo == CHOOSE i \in keep : \A j \in keep : i <= j
                 hi == CHOOSE i \in keep : \A j \in keep : i >= j
             IN  SubSeq(s, lo, hi)

\* t in s
Contains(s, t) ==
    \E i \in 0..(Len(s) - Len(t)) : SubSeq(s, i + 1, i + Len(t)) = t

\* s.startswith(t)
StartsWith(s, t) ==
    Len(s) >= Len(t) /\ SubSeq(s, 1, Len(t)) = t

kw_select   == <<"s","e","l","e","c","t">>
kw_drop     == <<"d","r","o","p">>
kw_alter    == <<"a","l","t","e","r">>
kw_truncate == <<"t","r","u","n","c","a","t","e">>
kw_create   == <<"c","r","e","a","t","e">>
kw_begin    == <<"b","e","g","i","n">>

\* blocked = ["drop", "alter", "truncate", "create"]
blocked == {kw_drop, kw_alter, kw_truncate, kw_create}

\* any(x in query.lower() for x in blocked)
HasBlocked(q) == \E x \in blocked : Contains(Lower(q), x)

\* "select" in query.strip().lower()
HasSelect(q) == Contains(Lower(Strip(q)), kw_select)

\* (variant: strip() left out)
StartsSelect_untrimmed(q) == StartsWith(Lower(q), kw_select)

\* query.strip().lower().startswith("select")
StartsSelect(q) == StartsWith(Lower(Strip(q)), kw_select)

----------------------------------------------------------------------------
(* Statements the clients send: words glued together. *)
Words == {
    <<" ">>,
    <<"s","e","l","e","c","t"," ","x">>,
    <<"S","e","l">>,
    <<"e","c","T">>,
    <<"D","R","O","P"," ","t">>,
    <<"a","l","t","e","r">>,
    <<"T","r","u","n","c","a","t","e">>,
    <<"c","r","e","a","t","e","d","_","a","t">>,
    <<"i","n","s","e","r","t">>,
    <<"B","E","G","I","N",";">> }

RECURSIVE Glue(_)
Glue(n) ==
    IF n = 0 THEN {<<>>}
    ELSE LET shorter == Glue(n - 1)
         IN  shorter \cup {s \o w : s \in shorter, w \in Words}

AllQueries == Glue(MaxWords)

Q_insert == <<"i","n","s","e","r","t">>
Q_begin  == <<"B","E","G","I","N",";","i","n","s","e","r","t">>
Q_select == <<"s","e","l","e","c","t"," ","x">>

SampleQueries == {Q_insert, Q_begin, Q_select}

----------------------------------------------------------------------------
(* Values *)
Clients == 1..NumClients
Unset   == "<unset>"       \* os.getenv returns None
NoToken == "<absent>"      \* no Authorization: Bearer header on the request
Secrets == {Unset, "", "k1"}
Tokens  == {NoToken, "k1", "k2"}
Tools   == {"list_tables", "describe_table", "run_select", "run_sql", "preview_table"}

Idle == [pc |-> "idle", tool |-> "none", query |-> <<>>, token |-> NoToken,
         status |-> 0, challenge |-> FALSE, pool |-> 0, conn |-> 0,
         out |-> "none", acquired |-> FALSE, executed |-> FALSE, waited |-> 0,
         mustSee |-> {}, stale |-> FALSE, change |-> 0, tx |-> FALSE]

NoCall == [tool |-> "none", query |-> <<>>, out |-> "none",
           connected |-> FALSE, executed |-> FALSE, change |-> 0]

Statements ==
    IF workload.queries = "all" THEN AllQueries ELSE SampleQueries

\* Only run_select and run_sql take a statement; the table name of
\* describe_table and preview_table does not reach any check of the code.
QueriesOf(tool) ==
    IF tool \in {"run_select", "run_sql"} THEN Statements ELSE {<<>>}

----------------------------------------------------------------------------
(* src/app.py: the bearer check in front of /mcp *)

\* HTTPBearer(): a request without bearer credentials is refused by the
\* dependency itself, before check_auth runs
security(tok) ==
    IF tok = NoToken
    THEN [status |-> denyStatus, challenge |-> (denyStatus = 401)]
    ELSE [status |-> 200, challenge |-> FALSE]

\* (variant: the token is never compared)
check_auth_any_token(expected_key, credentials) ==
    IF expected_key \in {Unset, ""}
    THEN [status |-> 500, challenge |-> FALSE]
    ELSE [status |-> 200, challenge |-> FALSE]

check_auth(expected_key, credentials) ==
    IF expected_key \in {Unset, ""}
    THEN [status |-> 500, challenge |-> FALSE]
    ELSE IF credentials # expected_key
         THEN [status |-> 401, challenge |-> TRUE]
         ELSE [status |-> 200, challenge |-> FALSE]

\* Depends(check_auth), itself depending on Depends(security)
Authorize(tok) ==
    IF security(tok).status # 200 THEN security(tok)
    ELSE check_auth(secret, tok)

----------------------------------------------------------------------------
(* src/mcp_server.py: the checks each tool makes before it touches the pool *)

\* (variant: run_select tests the prefix as run_sql does)
run_select_gate_prefix(q) ==
    IF ~StartsSelect(q) THEN "IntentMismatch" ELSE "pass"

run_select_gate(q) ==
    IF ~HasSelect(q) THEN "IntentMismatch" ELSE "pass"

\* (variant: the two tests in the other order)
run_sql_gate_select_first(q) ==
    IF StartsSelect(q) THEN "IntentMismatch"
    ELSE IF HasBlocked(q) THEN "ForbiddenStatement"
    ELSE "pass"

run_sql_gate(q) ==
    IF HasBlocked(q) THEN "ForbiddenStatement"
    ELSE IF StartsSelect(q) THEN "IntentMismatch"
    ELSE "pass"

Gate(tool, q) ==
    CASE tool = "run_select" -> run_select_gate(q)
      [] tool = "run_sql"    -> run_sql_gate(q)
      [] OTHER               -> "pass"

\* if db_pool is not None: return
PoolExists(p) == p # 0

\* asyncpg.create_pool(**DB_CONFIG): a new pool, all its connections idle
NewPool == 1..MaxSize

\* (variant: the connection handed out stays in the queue)
Checkout_keep(free, c) == free

\* a connection leaves the pool's queue on acquire and rejoins it on release
Checkout(free, c) == free \ {c}
Checkin(free, c) == free \cup {c}

\* The statement leaves a transaction block open on the connection.
OpensTransaction(q) == Contains(Lower(q), kw_begin)

\* conn.execute(query) outside a transaction commits each statement on its
\* own; nothing in run_sql commits a block the statement itself opened.
CommittedByExecute(q) == ~OpensTransaction(q)

Begin(tool, q, tok) ==
    [Idle EXCEPT !.tool = tool, !.query = q, !.token = tok,
                 !.mustSee = IF tool = "run_select" THEN acked ELSE {}]

\* From the return of initialize_db_pool to the next suspension: the tool's
\* checks, then "async with db_pool.acquire()" on the pool db_pool names now.
Proceed(rec, p, pls) ==
    LET g == Gate(rec.tool, rec.query)
    IN  IF g # "pass"
        THEN {<<[rec EXCEPT !.pc = "done", !.out = g], pls>>}
        ELSE IF pls[p] = {}
        THEN {<<[rec EXCEPT !.pc = "acquire", !.pool = p], pls>>}
        ELSE {<<[rec EXCEPT !.pc = "exec", !.pool = p, !.conn = c,
                            !.acquired = TRUE],
                [pls EXCEPT ![p] = Checkout(@, c)]>> : c \in pls[p]}

\* await initialize_db_pool() at the top of every tool
Enter(r, rec) ==
    IF PoolExists(db_pool)
    THEN \E res \in Proceed(rec, db_pool, pools) :
            /\ req' = [req EXCEPT ![r] = res[1]]
            /\ pools' = res[2]
    ELSE /\ req' = [req EXCEPT ![r] = [rec EXCEPT !.pc = "creating"]]
         /\ pools' = pools

----------------------------------------------------------------------------
(* src/app.py: start_server *)

\* (variant: the except branch does not re-raise)
AfterPoolInit_swallow(ok) == "built"

\* await initialize_db_pool() either returns or lets the exception escape
AfterPoolInit(ok) == IF ok THEN "built" ELSE "failed"

StartServer ==
    /\ srv = "boot"
    /\ srv' = IF PoolExists(db_pool) THEN AfterPoolInit(TRUE) ELSE "creating"
    /\ UNCHANGED <<workload, secret, denyStatus, db_pool, pools, req,
                   committed, acked, nChanges, mainOut>>

StartupPoolCreated ==
    /\ srv = "creating"
    /\ pools' = Append(pools, NewPool)
    /\ db_pool' = Len(pools')
    /\ srv' = AfterPoolInit(TRUE)
    /\ UNCHANGED <<workload, secret, denyStatus, req, committed, acked,
                   nChanges, mainOut>>

StartupPoolFailed ==
    /\ srv = "creating"
    /\ srv' = AfterPoolInit(FALSE)
    /\ UNCHANGED <<workload, secret, denyStatus, db_pool, pools, req,
                   committed, acked, nChanges, mainOut>>

\* transport, app, routes, uvicorn.Server(config).serve()
Serve ==
    /\ srv = "built"
    /\ srv' = "serving"
    /\ UNCHANGED <<workload, secret, denyStatus, db_pool, pools, req,
                   committed, acked, nChanges, mainOut>>

\* POST or GET /mcp: the dependencies run first; protected_mcp_endpoint hands
\* the request to transport.handle_request, which calls the tool it names.
HttpRequest(r, tok) ==
    /\ srv = "serving"
    /\ req[r].pc = "idle"
    /\ LET resp == Authorize(tok)
       IN  IF resp.status = 200
           THEN \E tool \in Tools : \E q \in QueriesOf(tool) :
                    Enter(r, Begin(tool, q, tok))
           ELSE /\ req' = [req EXCEPT ![r] =
                              [Idle EXCEPT !.pc = "rejected", !.token = tok,
                                           !.status = resp.status,
                                           !.challenge = resp.challenge]]
                /\ pools' = pools
    /\ UNCHANGED <<workload, secret, denyStatus, srv, db_pool, committed,
                   acked, nChanges, mainOut>>

----------------------------------------------------------------------------
(* src/mcp_server.py: a tool call *)

\* The tools served by a host that never ran start_server.
DirectCall(r) ==
    /\ srv = "embedded"
    /\ req[r].pc = "idle"
    /\ \E tool \in Tools : \E q \in QueriesOf(tool) :
           Enter(r, Begin(tool, q, NoToken))
    /\ UNCHANGED <<workload, secret, denyStatus, srv, db_pool, committed,
                   acked, nChanges, mainOut>>

\* db_pool = await asyncpg.create_pool(**DB_CONFIG) returns
PoolCreated(r) ==
    /\ req[r].pc = "creating"
    /\ LET pls == Append(pools, NewPool)
           p   == Len(pls)
       IN  /\ db_pool' = p
           /\ \E res \in Proceed(req[r], p, pls) :
                /\ req' = [req EXCEPT ![r] = res[1]]
                /\ pools' = res[2]
    /\ UNCHANGED <<workload, secret, denyStatus, srv, committed, acked,
                   nChanges, mainOut>>

\* create_pool raises; initialize_db_pool prints and re-raises
PoolFailed(r) ==
    /\ req[r].pc = "creating"
    /\ req' = [req EXCEPT ![r] = [@ EXCEPT !.pc = "done",
                                           !.out = "ConnectionError"]]
    /\ UNCHANGED <<workload, secret, denyStatus, srv, db_pool, pools,
                   committed, acked, nChanges, mainOut>>

\* Time passes for a caller queued on a pool with no idle connection;
\* acquire() is called without a timeout.
WaitTick(r) ==
    /\ req[r].pc = "acquire"
    /\ pools[req[r].pool] = {}
    /\ req[r].waited < MaxWait
    /\ req' = [req EXCEPT ![r] = [@ EXCEPT !.waited = @ + 1]]
    /\ UNCHANGED <<workload, secret, denyStatus, srv, db_pool, pools,
                   committed, acked, nChanges, mainOut>>

\* A queued caller is handed a connection that was released.
GetConn(r) ==
    /\ req[r].pc = "acquire"
    /\ \E c \in pools[req[r].pool] :
         /\ req' = [req EXCEPT ![r] = [@ EXCEPT !.pc = "exec", !.conn = c,
                                                !.acquired = TRUE,
                                                !.waited = 0]]
         /\ pools' = [pools EXCEPT ![req[r].pool] = Checkout(@, c)]
    /\ UNCHANGED <<workload, secret, denyStatus, srv, db_pool, committed,
                   acked, nChanges, mainOut>>

\* conn.execute(query) returns a status string
ExecuteOk(r) ==
    /\ req[r].pc = "exec"
    /\ req[r].tool = "run_sql"
    /\ nChanges < MaxWrites
    /\ nChanges' = nChanges + 1
    /\ committed' = IF CommittedByExecute(req[r].query)
                    THEN committed \cup {nChanges'} ELSE committed
    /\ req' = [req EXCEPT ![r] =
                 [@ EXCEPT !.pc = "release", !.out = "ok", !.executed = TRUE,
                           !.change = nChanges',
                           !.tx = ~CommittedByExecute(req[r].query)]]
    /\ UNCHANGED <<workload, secret, denyStatus, srv, db_pool, pools, acked,
                   mainOut>>

\* conn.fetch(query) returns records
FetchOk(r) ==
    /\ req[r].pc = "exec"
    /\ req[r].tool # "run_sql"
    /\ req' = [req EXCEPT ![r] =
                 [@ EXCEPT !.pc = "release", !.out = "rows", !.executed = TRUE,
                           !.stale = ~(req[r].mustSee \subseteq committed),
                           !.mustSee = {}]]
    /\ UNCHANGED <<workload, secret, denyStatus, srv, db_pool, pools,
                   committed, acked, nChanges, mainOut>>

\* the database rejects the statement
DbError(r) ==
    /\ req[r].pc = "exec"
    /\ req' = [req EXCEPT ![r] =
                 [@ EXCEPT !.pc = "release", !.out = "DatabaseError",
                           !.executed = TRUE]]
    /\ UNCHANGED <<workload, secret, denyStatus, srv, db_pool, pools,
                   committed, acked, nChanges, mainOut>>

\* __aexit__ of "async with db_pool.acquire()": the connection is reset
\* (an open transaction is rolled back) and rejoins the pool it came from;
\* then the tool returns or the exception propagates.
Release(r) ==
    /\ req[r].pc = "release"
    /\ pools' = [pools EXCEPT ![req[r].pool] = Checkin(@, req[r].conn)]
    /\ acked' = IF req[r].out = "ok" THEN acked \cup {req[r].change} ELSE acked
    /\ req' = [req EXCEPT ![r] =
                 [@ EXCEPT !.pc = "done", !.pool = 0, !.conn = 0,
                           !.change = 0, !.tx = FALSE]]
    /\ UNCHANGED <<workload, secret, denyStatus, srv, db_pool, committed,
                   nChanges, mainOut>>

\* The client has its answer.
Return(r) ==
    /\ req[r].pc \in {"done", "rejected"}
    /\ req' = [req EXCEPT ![r] = Idle]
    /\ UNCHANGED <<workload, secret, denyStatus, srv, db_pool, pools,
                   committed, acked, nChanges, mainOut>>

----------------------------------------------------------------------------
(* src/main.py: the stdio variant; a tool call runs to completion *)

\* "select" in query.lower()
main_run_select_gate(q) ==
    IF ~Contains(Lower(q), kw_select) THEN "IntentMismatch" ELSE "pass"

\* query.lower().strip().startswith("select"), after the blocked words
main_run_sql_gate(q) ==
    IF HasBlocked(q) THEN "ForbiddenStatement"
    ELSE IF StartsWith(Strip(Lower(q)), kw_select) THEN "IntentMismatch"
    ELSE "pass"

Called(tool, q, out, connected, executed, change) ==
    [tool |-> tool, query |-> q, out |-> out, connected |-> connected,
     executed |-> executed, change |-> change]

Main_run_select ==
    /\ srv = "stdio"
    /\ mainOut = NoCall
    /\ \E q \in Statements :
         LET g == main_run_select_gate(q)
         IN  IF g # "pass"
             THEN mainOut' = Called("run_select", q, g, FALSE, FALSE, 0)
             ELSE \/ \* psycopg2.connect raises
                     mainOut' = Called("run_select", q, "ConnectionError",
                                       FALSE, FALSE, 0)
                  \/ \* cur.execute or cur.fetchall raises
                     mainOut' = Called("run_select", q, "DatabaseError",
                                       TRUE, TRUE, 0)
                  \/ mainOut' = Called("run_select", q, "rows", TRUE, TRUE, 0)
    /\ UNCHANGED <<workload, secret, denyStatus, srv, db_pool, pools, req,
                   committed, acked, nChanges>>

Main_run_sql ==
    /\ srv = "stdio"
    /\ mainOut = NoCall
    /\ \E q \in Statements :
         LET g == main_run_sql_gate(q)
         IN  IF g # "pass"
             THEN /\ mainOut' = Called("run_sql", q, g, FALSE, FALSE, 0)
                  /\ UNCHANGED <<committed, acked, nChanges>>
             ELSE \/ /\ mainOut' = Called("run_sql", q, "ConnectionError",
                                          FALSE, FALSE, 0)
                     /\ UNCHANGED <<committed, acked, nChanges>>
                  \/ /\ mainOut' = Called("run_sql", q, "DatabaseError",
                                          TRUE, TRUE, 0)
                     /\ UNCHANGED <<committed, acked, nChanges>>
                  \/ \* cur.execute(query); conn.commit(); return
                     /\ nChanges < MaxWrites
                     /\ nChanges' = nChanges + 1
                     /\ committed' = committed \cup {nChanges'}
                     /\ acked' = acked \cup {nChanges'}
                     /\ mainOut' = Called("run_sql", q, "ok", TRUE, TRUE,
                                          nChanges')
    /\ UNCHANGED <<workload, secret, denyStatus, srv, db_pool, pools, req>>

\* The client has its answer; the stdio server reads the next request.
Main_return ==
    /\ srv = "stdio"
    /\ mainOut # NoCall
    /\ mainOut' = NoCall
    /\ UNCHANGED <<workload, secret, denyStatus, srv, db_pool, pools, req,
                   committed, acked, nChanges>>

----------------------------------------------------------------------------
(* Specifications *)

Start(w, modes) ==
    /\ workload = w
    /\ srv \in modes
    /\ IF srv = "boot"
       THEN secret \in Secrets /\ denyStatus \in {401, 403}
       ELSE secret = Unset /\ denyStatus = 403
    /\ db_pool = 0
    /\ pools = <<>>
    /\ req = [r \in w.clients |-> Idle]
    /\ committed = {}
    /\ acked = {}
    /\ nChanges = 0
    /\ mainOut = NoCall

\* The server under concurrent clients: app.py, or the tools of
\* mcp_server.py served by a host that does not call start_server.
Init ==
    Start([clients |-> Clients, queries |-> "sample"],
          {"boot", "embedded"})

Next ==
    \/ StartServer
    \/ StartupPoolCreated
    \/ StartupPoolFailed
    \/ Serve
    \/ \E r \in workload.clients, tok \in Tokens : HttpRequest(r, tok)
    \/ \E r \in workload.clients : DirectCall(r)
    \/ \E r \in workload.clients : PoolCreated(r)
    \/ \E r \in workload.clients : PoolFailed(r)
    \/ \E r \in workload.clients : WaitTick(r)
    \/ \E r \in workload.clients : GetConn(r)
    \/ \E r \in workload.clients : ExecuteOk(r)
    \/ \E r \in workload.clients : FetchOk(r)
    \/ \E r \in workload.clients : DbError(r)
    \/ \E r \in workload.clients : Release(r)
    \/ \E r \in workload.clients : Return(r)

Spec == Init /\ [][Next]_vars

\* Both programs with one call at a time, over every statement of
\* AllQueries: startup, the bearer check and the statement checks.
InitGate ==
    Start([clients |-> {1}, queries |-> "all"],
          {"boot", "embedded", "stdio"})

NextGate ==
    \/ StartServer
    \/ StartupPoolCreated
    \/ StartupPoolFailed
    \/ Serve
    \/ \E r \in workload.clients, tok \in Tokens : HttpRequest(r, tok)
    \/ \E r \in workload.clients : DirectCall(r)
    \/ \E r \in workload.clients : PoolCreated(r)
    \/ \E r \in workload.clients : PoolFailed(r)
    \/ \E r \in workload.clients : ExecuteOk(r)
    \/ \E r \in workload.clients : FetchOk(r)
    \/ \E r \in workload.clients : DbError(r)
    \/ \E r \in workload.clients : Release(r)
    \/ \E r \in workload.clients : Return(r)
    \/ Main_run_select
    \/ Main_run_sql
    \/ Main_return

SpecGate == InitGate /\ [][NextGate]_vars

----------------------------------------------------------------------------
(* Properties *)

\* The statement classes as the specification words them.
MentionsForbidden(q) ==
    \E x \in {kw_drop, kw_alter, kw_truncate, kw_create} : Contains(Lower(q), x)
MentionsSelect(q) == Contains(Lower(q), kw_select)
LeadsWithSelect(q) == StartsWith(Lower(Strip(q)), kw_select)

InFlight(r) == req[r].pc \notin {"idle", "rejected"}
Untouched(c) == ~c.acquired /\ ~c.executed /\ c.change = 0
MainUntouched == ~mainOut.connected /\ ~mainOut.executed /\ mainOut.change = 0

\* C1 as claimed: run_sql on a statement that mentions drop, alter, truncate
\* or create fails with ForbiddenStatement, whatever else the statement
\* holds, and neither acquires a connection nor executes anything.
C1_Original ==
    /\ \A r \in DOMAIN req :
         (req[r].tool = "run_sql" /\ MentionsForbidden(req[r].query)) =>
            /\ Untouched(req[r])
            /\ req[r].pc \in {"creating", "done"}
            /\ req[r].pc = "done" => req[r].out = "ForbiddenStatement"
    /\ (mainOut.tool = "run_sql" /\ MentionsForbidden(mainOut.query)) =>
         mainOut.out = "ForbiddenStatement" /\ MainUntouched

\* C1 amended: run_sql on a statement that mentions a forbidden word never
\* acquires a connection nor executes; it fails with ForbiddenStatement,
\* also when the statement starts with select, except that in mcp_server.py
\* a call that finds no pool and whose create_pool raises fails with that
\* error, which is raised before the statement is looked at.
C1_ForbiddenBlocked ==
    /\ \A r \in DOMAIN req :
         (req[r].tool = "run_sql" /\ MentionsForbidden(req[r].query)) =>
            /\ Untouched(req[r])
            /\ req[r].pc \in {"creating", "done"}
            /\ req[r].pc = "done" =>
                 /\ req[r].out \in {"ForbiddenStatement", "ConnectionError"}
                 /\ req[r].out = "ConnectionError" => db_pool = 0
    /\ (mainOut.tool = "run_sql" /\ MentionsForbidden(mainOut.query)) =>
         mainOut.out = "ForbiddenStatement" /\ MainUntouched

C1_Witness ==
    \E r \in DOMAIN req :
        /\ req[r].tool = "run_sql"
        /\ req[r].pc = "done"
        /\ MentionsForbidden(req[r].query)
        /\ LeadsWithSelect(req[r].query)
        /\ req[r].out = "ForbiddenStatement"

\* C2 as claimed: run_select never executes a statement that mentions drop,
\* alter, truncate or create, even when the statement also mentions select.
C2_Original ==
    /\ \A r \in DOMAIN req :
         (req[r].tool = "run_select" /\ MentionsForbidden(req[r].query)) =>
            ~req[r].executed
    /\ (mainOut.tool = "run_select" /\ MentionsForbidden(mainOut.query)) =>
         ~mainOut.executed

\* C8 as claimed: run_sql on a statement that starts with select once
\* trimmed and lowercased, and mentions no forbidden word, fails with
\* IntentMismatch and neither acquires a connection nor executes anything.
C8_Original ==
    /\ \A r \in DOMAIN req :
         (/\ req[r].tool = "run_sql"
          /\ LeadsWithSelect(req[r].query)
          /\ ~MentionsForbidden(req[r].query)) =>
            /\ Untouched(req[r])
            /\ req[r].pc \in {"creating", "done"}
            /\ req[r].pc = "done" => req[r].out = "IntentMismatch"
    /\ (/\ mainOut.tool = "run_sql"
        /\ LeadsWithSelect(mainOut.query)
        /\ ~MentionsForbidden(mainOut.query)) =>
         mainOut.out = "IntentMismatch" /\ MainUntouched

\* C8 amended: such a call never acquires a connection nor executes; it fails
\* with IntentMismatch, except that in mcp_server.py a call that finds no
\* pool and whose create_pool raises fails with that error instead.
C8_SelectRefusedByRunSql ==
    /\ \A r \in DOMAIN req :
         (/\ req[r].tool = "run_sql"
          /\ LeadsWithSelect(req[r].query)
          /\ ~MentionsForbidden(req[r].query)) =>
            /\ Untouched(req[r])
            /\ req[r].pc \in {"creating", "done"}
            /\ req[r].pc = "done" =>
                 /\ req[r].out \in {"IntentMismatch", "ConnectionError"}
                 /\ req[r].out = "ConnectionError" => db_pool = 0
    /\ (/\ mainOut.tool = "run_sql"
        /\ LeadsWithSelect(mainOut.query)
        /\ ~MentionsForbidden(mainOut.query)) =>
         mainOut.out = "IntentMismatch" /\ MainUntouched

C8_Witness ==
    \E r \in DOMAIN req :
        /\ req[r].tool = "run_sql"
        /\ req[r].pc = "done"
        /\ req[r].out = "IntentMismatch"
        /\ req[r].query # <<>>
        /\ req[r].query[1] \in Whitespace
        /\ ~MentionsForbidden(req[r].query)

\* C9 as claimed: run_select fails with IntentMismatch, untouched, exactly
\* when the statement does not mention select; a statement that mentions
\* select and no forbidden word is executed on an acquired connection and
\* its rows are returned.
C9_Original ==
    /\ \A r \in DOMAIN req :
         (req[r].tool = "run_select" /\ req[r].pc = "done") =>
            /\ (req[r].out = "IntentMismatch") <=> ~MentionsSelect(req[r].query)
            /\ req[r].out = "IntentMismatch" => Untouched(req[r])
            /\ (MentionsSelect(req[r].query) /\ ~MentionsForbidden(req[r].query))
                 => (req[r].out = "rows" /\ req[r].acquired /\ req[r].executed)
    /\ mainOut.tool = "run_select" =>
         /\ (mainOut.out = "IntentMismatch") <=> ~MentionsSelect(mainOut.query)
         /\ mainOut.out = "IntentMismatch" => MainUntouched
         /\ (MentionsSelect(mainOut.query) /\ ~MentionsForbidden(mainOut.query))
              => (mainOut.out = "rows" /\ mainOut.connected /\ mainOut.executed)

\* C9 amended: run_select fails with IntentMismatch only on a statement that
\* does not mention select, and such a statement is never executed: the call
\* fails with IntentMismatch, or with the error of create_pool when it found
\* no pool. A statement that mentions select and no forbidden word is never
\* refused with IntentMismatch: the call returns rows or the database's error
\* after executing it on an acquired connection, or fails without executing
\* because the pool (main.py: the connection) could not be opened.
C9_SelectGate ==
    /\ \A r \in DOMAIN req :
         req[r].tool = "run_select" =>
            /\ ~MentionsSelect(req[r].query) =>
                 /\ Untouched(req[r])
                 /\ req[r].pc \in {"creating", "done"}
                 /\ req[r].pc = "done" =>
                      /\ req[r].out \in {"IntentMismatch", "ConnectionError"}
                      /\ req[r].out = "ConnectionError" => db_pool = 0
            /\ (MentionsSelect(req[r].query) /\ req[r].pc = "done") =>
                 /\ req[r].out \in {"rows", "DatabaseError", "ConnectionError"}
                 /\ req[r].out \in {"rows", "DatabaseError"} =>
                      (req[r].acquired /\ req[r].executed)
                 /\ req[r].out = "ConnectionError" =>
                      (Untouched(req[r]) /\ db_pool = 0)
    /\ mainOut.tool = "run_select" =>
         /\ ~MentionsSelect(mainOut.query) =>
              (mainOut.out = "IntentMismatch" /\ MainUntouched)
         /\ MentionsSelect(mainOut.query) =>
              /\ mainOut.out \in {"rows", "DatabaseError", "ConnectionError"}
              /\ mainOut.out \in {"rows", "DatabaseError"} =>
                   (mainOut.connected /\ mainOut.executed)
              /\ mainOut.out = "ConnectionError" => MainUntouched

C9_Witness ==
    \E r \in DOMAIN req :
        /\ req[r].tool = "run_select"
        /\ req[r].pc = "done"
        /\ req[r].out = "rows"
        /\ req[r].executed
        /\ MentionsSelect(req[r].query)
        /\ ~LeadsWithSelect(req[r].query)
        /\ ~MentionsForbidden(req[r].query)

\* C3 as claimed: a request reaches the tools only with the configured
\* secret as its bearer token; with the secret unset or empty every request
\* is answered 500; with the secret set a request whose token is missing or
\* different is answered 401 with WWW-Authenticate: Bearer.
C3_Original ==
    \A r \in DOMAIN req :
        /\ (srv = "serving" /\ InFlight(r)) =>
             (secret \notin {Unset, ""} /\ req[r].token = secret)
        /\ req[r].pc = "rejected" =>
             IF secret \in {Unset, ""}
             THEN req[r].status = 500
             ELSE /\ req[r].token # secret
                  /\ req[r].status = 401
                  /\ req[r].challenge

\* C3 amended: a request reaches the tools only with the configured secret as
\* its bearer token. A request that carries a bearer token is answered 500
\* when the secret is unset or empty, and 401 with WWW-Authenticate: Bearer
\* when the secret is set and the token differs. A request without bearer
\* credentials is refused by HTTPBearer before check_auth runs, whether or not
\* the secret is set: never 500, but 403, or 401 with the challenge.
C3_AuthGate ==
    \A r \in DOMAIN req :
        /\ (srv = "serving" /\ InFlight(r)) =>
             (secret \notin {Unset, ""} /\ req[r].token = secret)
        /\ req[r].pc = "rejected" =>
             IF req[r].token = NoToken
             THEN /\ req[r].status \in {401, 403}
                  /\ req[r].status = 401 => req[r].challenge
             ELSE IF secret \in {Unset, ""}
             THEN req[r].status = 500
             ELSE /\ req[r].token # secret
                  /\ req[r].status = 401
                  /\ req[r].challenge

C3_Witness ==
    \E r \in DOMAIN req :
        /\ srv = "serving"
        /\ secret \notin {Unset, ""}
        /\ req[r].pc = "rejected"
        /\ req[r].token \notin {NoToken, secret}
        /\ req[r].status = 401
        /\ req[r].challenge

\* C4 as claimed: create_pool completes successfully at most once in the
\* life of the process.
C4_Original == Len(pools) <= 1

\* C5: the server is built and serves only with the pool in place; when pool
\* creation fails at startup the pool stays unset and no request is ever
\* taken.
C5_ServeOnlyWithPool ==
    /\ srv \in {"built", "serving"} => (db_pool # 0 /\ Len(pools) >= 1)
    /\ srv \in {"boot", "creating", "built", "failed"} =>
         \A r \in DOMAIN req : req[r].pc = "idle"
    /\ srv = "failed" => (db_pool = 0 /\ pools = <<>>)

C5_Witness ==
    /\ srv = "serving"
    /\ db_pool # 0
    /\ \E r \in DOMAIN req : req[r].pc = "exec"

\* C6 as claimed: no caller is still queued on an exhausted pool once the
\* timeout has run out (here: the longest wait the clock of the model
\* counts); by then its call has failed with PoolExhausted.
C6_Original ==
    \A r \in DOMAIN req :
        req[r].waited = MaxWait =>
            (req[r].pc = "done" /\ req[r].out = "PoolExhausted")

\* C7: a connection out of a pool is held by exactly one call; the
\* connections out of the pools are exactly those held by calls in progress,
\* so none stays out once its call has finished, with a result or an error.
Held == {<<req[r].pool, req[r].conn>> : r \in {x \in DOMAIN req : req[x].conn # 0}}
Out == {pc \in (1..Len(pools)) \X NewPool : pc[2] \notin pools[pc[1]]}

C7_ExclusiveAndReturned ==
    /\ \A r, t \in DOMAIN req :
         (r # t /\ req[r].conn # 0 /\ req[t].conn # 0) =>
            <<req[r].pool, req[r].conn>> # <<req[t].pool, req[t].conn>>
    /\ \A r \in DOMAIN req :
         /\ (req[r].conn # 0) <=> (req[r].pc \in {"exec", "release"})
         /\ req[r].conn # 0 => req[r].conn \notin pools[req[r].pool]
    /\ Out = Held
    /\ Cardinality(Out) <= Cardinality({r \in DOMAIN req : InFlight(r)})

C7_Witness ==
    \E r, t \in DOMAIN req :
        /\ req[r].pc = "done"
        /\ req[r].out = "DatabaseError"
        /\ req[t].pc = "exec"
        /\ Out = {<<req[t].pool, req[t].conn>>}

\* C10 as claimed: a change whose run_sql call has returned its success
\* message is committed, and a run_select that started after that return
\* reads it.
C10_Original ==
    /\ acked \subseteq committed
    /\ mainOut.out = "ok" => mainOut.change \in committed
    /\ \A r \in DOMAIN req :
         (req[r].tool = "run_select" /\ req[r].out = "rows") =>
            ~req[r].stale

====
